---- MODULE Spec2Model ----
(***************************************************************************)
(* Model of FanatiQS/teleprompter-server.  src/src/observer.js:           *)
(*   - the producer: observe() / DeepObserve (proxy traps get, set,        *)
(*     deleteProperty, nextCallback, getProxy, topGetter, setter.mid);     *)
(*   - the consumer: applyChange().                                        *)
(* src/src/server.js: the trigger registry (addTrigger, on) and the        *)
(* project library (getProj, preloading).                                  *)
(* JavaScript objects live in a heap (identity matters: the diff under     *)
(* construction aliases staging objects and live objects); the reconciled  *)
(* trees of applyChange carry property descriptors.                        *)
(***************************************************************************)
EXTENDS Integers, Sequences, FiniteSets, TLC

\* ------------------------------------------------------------------ bounds
\* deepest level at which an object may sit below the bound property
MaxDepth == 2
\* number of client operations (reads, writes) in one behaviour
MaxOps == 4
\* number of applyChange calls made on one tree
MaxApplies == 2

\* ------------------------------------------------------------------ values
Keys == {"a", "b"}
\* insertion order of the keys of every object literal of the client
KeyOrder == <<"a", "b">>
Regs == {"x", "y"}

\* JavaScript values: undefined, null, a (truthy) scalar, an object reference
U == <<"u", 0>>
NUL == <<"n", 0>>
OBJ == <<"o", 0>>
Sc(i) == <<"s", i>>
Ref(i) == <<"r", i>>
IsRef(v) == v[1] = "r"
RefId(v) == IF IsRef(v) THEN v[2] ELSE 0
\* if (value): objects and the scalars other than 0 are truthy
Truthy(v) == v[1] \in {"r", "o"} \/ (v[1] = "s" /\ v[2] # 0)
EmptyObj == [k \in Keys |-> U]
Scalars == {Sc(1), Sc(2)}

\* paths of keys below the bound property
RECURSIVE SeqsUpTo(_)
SeqsUpTo(n) ==
  IF n = 0 THEN {<<>>}
  ELSE LET S == SeqsUpTo(n - 1)
       IN S \cup {Append(s, k) : s \in {t \in S : Len(t) = n - 1}, k \in Keys}
Paths == SeqsUpTo(MaxDepth + 1) \ {<<>>}
IsPrefix(p, q) == Len(p) <= Len(q) /\ SubSeq(q, 1, Len(p)) = p

VARIABLES
  heap,      \* JavaScript objects: id -> [key -> value]
  nodes,     \* DeepObserve handler objects: top nodes first, then children
  cbs,       \* the properties kept on each callback function: wait, key, store, tmp
  cbOf,      \* binding -> the callback function it was observed with
  slot,      \* binding -> descriptor.value of the bound property
  ticks,     \* process.nextTick queue: bindings whose flush closure is queued
  regs,      \* the client's local variables holding proxies
  fuel,      \* client operations left
  draining,  \* the nextTick queue is being run (no client code in between)
  written,   \* per binding: path -> last value written this turn (U: none)
  clean,     \* per binding: so far no wholesale write, no TypeError, no write through a detached view
  delivered, \* per binding: the argument of the last callback invocation, as serialised
  replica,   \* per binding: the receiving side's copy, reconciled with every delivery
  whole,     \* per binding: a wholesale write was stored for a flush and not yet delivered
  last,      \* what the last step did
  previous,  \* the tree applyChange reconciles (consumer on its own)
  orig,      \* that tree as it was at first
  outcome,   \* the last applyChange call: tree before, incoming, reports, thrown
  applied,   \* number of applyChange calls made
  triggers,  \* Server: event name -> the trigger stored under it
  library,   \* Server: project id -> the Project stored (0: none)
  loading,   \* Server: loadProj calls whose callback has not run yet
  completed, \* preload: getProj callbacks still awaited
  built,     \* project id -> number of Project objects constructed
  got,       \* project id -> the Projects handed to getProj callbacks
  fired,     \* number of deferred trigger callbacks run
  calls,     \* Server calls left
  srvLast    \* what the last Server call did

prodVars == <<heap, nodes, cbs, cbOf, slot, ticks, regs, fuel, draining,
              written, clean, delivered, replica, whole, last>>
consVars == <<previous, orig, outcome, applied>>
srvVars == <<triggers, library, loading, completed, built, got, fired, calls, srvLast>>
restVars == <<consVars, srvVars>>
vars == <<prodVars, consVars, srvVars>>

Bindings == DOMAIN cbOf
NoView == [n |-> 0, t |-> 0, p |-> <<>>]
NewNode(b) == [b |-> b, store |-> U, tmp |-> U, proxy |-> 0, kids |-> [k \in Keys |-> 0]]
NoWrites == [p \in Paths |-> U]

\* the program state the handlers act on
Machine == [heap |-> heap, nodes |-> nodes, cbs |-> cbs, slot |-> slot, ticks |-> ticks]

\* ------------------------------------------------------- JavaScript helpers
\* isObj(value) of ./isObj
isObj(v) == IsRef(v)
\* obj[key] for a truthy obj: undefined on a primitive
GetProp(m, v, k) == IF IsRef(v) THEN m.heap[v[2]][k] ELSE U
\* obj[key] = x for an object obj
PutProp(m, v, k, x) == [m EXCEPT !.heap[v[2]][k] = x]
\* a new {} ; its reference is Ref(Len(m.heap) + 1)
Alloc(m) == [m EXCEPT !.heap = Append(@, EmptyObj)]

RECURSIVE Walk(_, _, _)
Walk(m, v, p) ==
  IF p = <<>> THEN v
  ELSE IF IsRef(v) THEN Walk(m, m.heap[v[2]][Head(p)], Tail(p))
  ELSE U
\* JSON image of a value: path -> leaf (OBJ marks a nested object)
Flat(m, v) ==
  [p \in Paths |-> LET x == Walk(m, v, p) IN IF IsRef(x) THEN OBJ ELSE x]

\* ------------------------------------------------------ DeepObserve handlers
\* Each handler maps the program state m to the state it leaves; ok = FALSE
\* when it ends in a TypeError (strict mode), with the effects made so far.

\* getProxy: the cached proxy, or a new Proxy(obj, this) with fresh children
getProxy(m, n, id) ==
  IF m.nodes[n].proxy # 0
  THEN [m |-> m, t |-> m.nodes[n].proxy]
  ELSE [m |-> [m EXCEPT !.nodes[n].kids = [k \in Keys |-> 0],
                        !.nodes[n].proxy = id],
        t |-> id]

\* topGetter: scalars pass through (t = 0), objects are proxied by the top node
topGetter(m, b) ==
  IF ~isObj(m.slot[b]) THEN [m |-> m, t |-> 0]
  ELSE getProxy(m, b, RefId(m.slot[b]))

\* nextCallback without the wait test: every mutation queues a flush
nextCallbackAlways(m, n) ==
  LET c  == cbOf[m.nodes[n].b]
      m1 == [m EXCEPT !.nodes[n].proxy = 0]
      m2 == [m1 EXCEPT !.cbs[c].wait = TRUE, !.ticks = Append(@, m.nodes[n].b)]
  IN IF Truthy(m2.nodes[n].store)
     THEN [m |-> m2, ret |-> m2.nodes[n].store, ok |-> TRUE]
     ELSE IF ~IsRef(m2.cbs[c].store)
     THEN [m |-> m2, ret |-> U, ok |-> FALSE]
     ELSE [m |-> PutProp(m2, m2.cbs[c].store, m2.cbs[c].key, m2.cbs[c].tmp),
           ret |-> m2.nodes[n].tmp, ok |-> TRUE]

\* nextCallback: drop the cached proxy, queue one flush per callback function,
\* and return the object the mutation is to be recorded in
nextCallback(m, n) ==
  LET c  == cbOf[m.nodes[n].b]
      m1 == [m EXCEPT !.nodes[n].proxy = 0]
      m2 == IF m1.cbs[c].wait THEN m1
            ELSE [m1 EXCEPT !.cbs[c].wait = TRUE, !.ticks = Append(@, m.nodes[n].b)]
  IN IF Truthy(m2.nodes[n].store)
     THEN [m |-> m2, ret |-> m2.nodes[n].store, ok |-> TRUE]
     ELSE IF ~IsRef(m2.cbs[c].store)
     THEN [m |-> m2, ret |-> U, ok |-> FALSE]
     ELSE [m |-> PutProp(m2, m2.cbs[c].store, m2.cbs[c].key, m2.cbs[c].tmp),
           ret |-> m2.nodes[n].tmp, ok |-> TRUE]

\* get trap of node n on target t: n = 0 in the result for a scalar
get(m, n, t, k) ==
  LET v   == m.heap[t][k]
      b   == m.nodes[n].b
      c0  == m.nodes[n].kids[k]
      c   == IF c0 # 0 THEN c0 ELSE Len(m.nodes) + 1
      m1  == IF c0 # 0 THEN m
             ELSE [[m EXCEPT !.nodes = Append(@, NewNode(b))]
                      EXCEPT !.nodes[n].kids[k] = c]
      tmp == Ref(Len(m1.heap) + 1)
      m2  == [Alloc(m1) EXCEPT !.nodes[c].tmp = tmp]
      st  == m2.nodes[n].store
      m3  == IF Truthy(st)
             THEN [m2 EXCEPT !.nodes[c].store = GetProp(m2, st, k),
                             !.cbs[cbOf[b]].key = k,
                             !.cbs[cbOf[b]].store = st,
                             !.cbs[cbOf[b]].tmp = tmp]
             ELSE PutProp(m2, m2.nodes[n].tmp, k, tmp)
      px  == getProxy(m3, c, RefId(v))
  IN IF ~isObj(v) THEN [m |-> m, ok |-> TRUE, n |-> 0, t |-> 0]
     ELSE IF ~Truthy(st) /\ ~IsRef(m2.nodes[n].tmp)
     THEN [m |-> m2, ok |-> FALSE, n |-> 0, t |-> 0]
     ELSE [m |-> px.m, ok |-> TRUE, n |-> c, t |-> px.t]

\* set trap: this.nextCallback()[key] = value; target[key] = value
set(m, n, t, k, x) ==
  LET r == nextCallback(m, n)
  IN IF ~r.ok \/ ~IsRef(r.ret) THEN [m |-> r.m, ok |-> FALSE]
     ELSE [m |-> PutProp(PutProp(r.m, r.ret, k, x), Ref(t), k, x), ok |-> TRUE]

\* deleteProperty trap: this.nextCallback()[key] = null; delete target[key]
deleteProperty(m, n, t, k) ==
  LET r == nextCallback(m, n)
  IN IF ~r.ok \/ ~IsRef(r.ret) THEN [m |-> r.m, ok |-> FALSE]
     ELSE [m |-> PutProp(PutProp(r.m, r.ret, k, NUL), Ref(t), k, U), ok |-> TRUE]

\* the accessor installed by observe: setter.mid(value), then descriptor.set(value);
\* sync = the callback was invoked inside the call
setter(m, b, value) ==
  LET c  == cbOf[b]
      m1 == [m EXCEPT !.nodes[b].proxy = 0]
      m2 == IF m1.cbs[c].wait THEN [m1 EXCEPT !.nodes[b].store = value] ELSE m1
  IN [m |-> [m2 EXCEPT !.slot[b] = value], sync |-> ~m1.cbs[c].wait]

\* the closure queued by nextCallback: callback(top.store); top.store = {}; wait = false
flush(m, b) ==
  LET m1 == Alloc(m)
  IN [m |-> [m1 EXCEPT !.nodes[b].store = Ref(Len(m1.heap)),
                       !.cbs[cbOf[b]].wait = FALSE,
                       !.ticks = Tail(@)],
      arg |-> m.nodes[b].store]

\* --------------------------------------------------- object identity
\* Object identities carry no meaning: after every step unreachable objects
\* are dropped and the rest renumbered in the order a traversal from the
\* program's roots meets them.
RECURSIVE AddNew(_, _)
AddNew(seq, cand) ==
  IF cand = <<>> THEN seq
  ELSE LET h == Head(cand)
       IN AddNew(IF h = 0 \/ \E i \in 1..Len(seq) : seq[i] = h
                 THEN seq ELSE Append(seq, h), Tail(cand))
Index(seq, id) == IF id = 0 THEN 0 ELSE CHOOSE i \in 1..Len(seq) : seq[i] = id
RECURSIVE Concat(_)
Concat(ss) == IF ss = <<>> THEN <<>> ELSE Head(ss) \o Concat(Tail(ss))

RECURSIVE NodeBFS(_, _, _)
NodeBFS(ns, seq, i) ==
  IF i > Len(seq) THEN seq
  ELSE NodeBFS(ns, AddNew(seq, [j \in 1..Len(KeyOrder) |-> ns[seq[i]].kids[KeyOrder[j]]]), i + 1)
RECURSIVE HeapBFS(_, _, _)
HeapBFS(h, seq, i) ==
  IF i > Len(seq) THEN seq
  ELSE HeapBFS(h, AddNew(seq, [j \in 1..Len(KeyOrder) |-> RefId(h[seq[i]][KeyOrder[j]])]), i + 1)

RegOrder == <<"x", "y">>
Canon(m, rg) ==
  LET nb    == Len(m.slot)
      no    == NodeBFS(m.nodes,
                 AddNew([i \in 1..nb |-> i], [j \in 1..Len(RegOrder) |-> rg[RegOrder[j]].n]), 1)
      roots == [i \in 1..nb |-> RefId(m.slot[i])]
               \o Concat([i \in 1..Len(no) |->
                     << RefId(m.nodes[no[i]].store), RefId(m.nodes[no[i]].tmp), m.nodes[no[i]].proxy >>])
               \o Concat([c \in 1..Len(m.cbs) |-> << RefId(m.cbs[c].store), RefId(m.cbs[c].tmp) >>])
               \o [j \in 1..Len(RegOrder) |-> rg[RegOrder[j]].t]
      ho    == HeapBFS(m.heap, AddNew(<<>>, roots), 1)
      rv(v) == IF IsRef(v) THEN Ref(Index(ho, v[2])) ELSE v
  IN [m |-> [heap  |-> [i \in 1..Len(ho) |-> [k \in Keys |-> rv(m.heap[ho[i]][k])]],
             nodes |-> [i \in 1..Len(no) |->
                          [b |-> m.nodes[no[i]].b,
                           store |-> rv(m.nodes[no[i]].store),
                           tmp |-> rv(m.nodes[no[i]].tmp),
                           proxy |-> Index(ho, m.nodes[no[i]].proxy),
                           kids |-> [k \in Keys |-> Index(no, m.nodes[no[i]].kids[k])]]],
             cbs   |-> [c \in 1..Len(m.cbs) |->
                          [m.cbs[c] EXCEPT !.store = rv(@), !.tmp = rv(@)]],
             slot  |-> [i \in 1..nb |-> rv(m.slot[i])],
             ticks |-> m.ticks],
      regs |-> [r \in Regs |-> [n |-> Index(no, rg[r].n), t |-> Index(ho, rg[r].t), p |-> rg[r].p]]]

\* ------------------------------------------------------------ applyChange
\* A reconciled tree maps each path to the descriptor of the property there:
\*   k  "abs" (no such property), "data" or "acc" (getter/setter pair)
\*   v  the value read from it (OBJ: an object, whose properties sit below)
\*   e  enumerable, c configurable
\*   s  what an assignment to it does: "store" the value, "throw" (a
\*      non-writable data property, a setter that rejects), or "none"
\*      (an accessor without setter: TypeError in strict mode)
Abs == [k |-> "abs", v |-> U, e |-> FALSE, c |-> TRUE, s |-> "store"]
Plain(v) == [k |-> "data", v |-> v, e |-> TRUE, c |-> TRUE, s |-> "store"]
NoTree == [p \in Paths |-> Abs]
\* the plain object a JSON image parses to
PlainTree(f) == [p \in Paths |-> IF f[p] = U THEN Abs ELSE Plain(f[p])]
\* what enumeration of a tree shows: the JSON image of its visible properties
RECURSIVE Shown(_, _)
Shown(t, p) ==
  /\ t[p].k # "abs" /\ t[p].e
  /\ Len(p) > 1 => Shown(t, SubSeq(p, 1, Len(p) - 1))
Visible(t) == [p \in Paths |-> IF Shown(t, p) THEN t[p].v ELSE U]

Below(pre, p) == Len(p) > Len(pre) /\ IsPrefix(pre, p)
\* oldObj[key] = newObj[key] at path q, for a property that accepts it
Assigned(t, inc, q) ==
  [p \in Paths |->
     IF p = q THEN (IF t[q].k = "abs" THEN Plain(inc[q]) ELSE [t[q] EXCEPT !.v = inc[q]])
     ELSE IF Below(q, p) THEN (IF inc[p] = U THEN Abs ELSE Plain(inc[p]))
     ELSE t[p]]
\* delete oldObj[key]
Deleted(t, q) == [p \in Paths |-> IF p = q \/ Below(q, p) THEN Abs ELSE t[p]]
\* descriptor.set(undefined) of a storing setter
Unset(t, q) ==
  [p \in Paths |-> IF p = q THEN [t[q] EXCEPT !.v = U]
                   ELSE IF Below(q, p) THEN Abs ELSE t[p]]
Event(ev, path) == [ev |-> ev, path |-> path]

\* Object.keys({...oldObj, ...newObj}) for the objects at path pre
UnionKeys(t, inc, pre) ==
  LET isOld(k) == Len(pre) < MaxDepth + 1 /\ t[Append(pre, k)].k # "abs" /\ t[Append(pre, k)].e
      isNew(k) == Len(pre) < MaxDepth + 1 /\ inc[Append(pre, k)] # U /\ ~isOld(k)
  IN SelectSeq(KeyOrder, isOld) \o SelectSeq(KeyOrder, isNew)

\* an assignment that throws, left to propagate
Uncaught(r, ev, key) == [r EXCEPT !.threw = TRUE]
\* catch (err) { log.err(..., key); return }
Caught(r, ev, key) == [r EXCEPT !.log = Append(r.log, Event(ev, <<key>>))]

RECURSIVE applyChange(_, _, _, _)
RECURSIVE applyKeys(_, _, _, _, _)

\* the body of the forEach callback for one key; r is the result so far
applyKey(r, inc, pre, keyPath, key) ==
  LET t   == r.t
      q   == Append(pre, key)
      d   == t[q]
      nl  == inc[q]
      say(ev, path) == Append(r.log, Event(ev, path))
  IN IF nl = d.v /\ nl # OBJ THEN r
     ELSE IF d.k # "abs" /\ ~d.c
     THEN (IF nl # U THEN [r EXCEPT !.log = say("locked", <<key>>)] ELSE r)
     ELSE IF d.k = "abs" \/ ~d.e
     THEN (IF d.k # "abs" /\ d.s # "store"
           THEN Caught(r, "addfail", key)
           ELSE [r EXCEPT !.t = [Assigned(t, inc, q) EXCEPT ![q].e = TRUE],
                          !.log = say("added", keyPath \o <<key>>)])
     ELSE IF nl = U
     THEN (IF d.k = "data" /\ Truthy(d.v)
           THEN [r EXCEPT !.t = Deleted(t, q), !.log = say("removed", keyPath \o <<key>>)]
           ELSE IF d.k = "acc" /\ d.s = "throw"
           THEN [r EXCEPT !.threw = TRUE]
           ELSE [r EXCEPT !.t = [(IF d.k = "acc" /\ d.s = "store" THEN Unset(t, q) ELSE t)
                                    EXCEPT ![q].e = FALSE],
                          !.log = say("removed", keyPath \o <<key>>)])
     ELSE IF nl \in {OBJ, NUL} /\ d.v \in {OBJ, NUL}
     THEN (IF nl = OBJ /\ d.v = OBJ THEN applyChange(r, inc, q, <<key>>)
           ELSE [r EXCEPT !.threw = UnionKeys(t, inc, q) # <<>>])
     ELSE (IF d.s # "store"
           THEN Caught(r, "updfail", key)
           ELSE [r EXCEPT !.t = Assigned(t, inc, q),
                          !.log = say("updated", keyPath \o <<key>>)])

\* forEach over the keys: an exception ends it
applyKeys(r, inc, pre, keyPath, ks) ==
  IF ks = <<>> \/ r.threw THEN r
  ELSE applyKeys(applyKey(r, inc, pre, keyPath, Head(ks)), inc, pre, keyPath, Tail(ks))

\* applyChange(oldObj, newObj, keyPath) for the objects at path pre of r.t and inc
applyChange(r, inc, pre, keyPath) ==
  applyKeys(r, inc, pre, keyPath, UnionKeys(r.t, inc, pre))

Reconcile(t, inc) == applyChange([t |-> t, log |-> <<>>, threw |-> FALSE], inc, <<>>, <<>>)

\* ------------------------------------------------------------ the client
\* what the callback receives, as the transport serialises it
Deliver(m, v, how) ==
  [kind |-> how, v |-> IF IsRef(v) THEN OBJ ELSE v, t |-> Flat(m, v)]
Nothing == [kind |-> "none", v |-> U, t |-> NoWrites]

\* the write of value x at path q, added to the writes of the turn
Record(w, q, x) ==
  [p \in Paths |-> IF p = q THEN (IF IsRef(x) THEN OBJ ELSE x)
                   ELSE IF IsPrefix(q, p) THEN U
                   ELSE w[p]]
\* the view still shows the object that sits at its path in the live tree
Attached(v) == Walk(Machine, slot[nodes[v.n].b], v.p) = Ref(v.t)

Commit(m, rg) ==
  LET c == Canon(m, rg)
  IN /\ heap' = c.m.heap
     /\ nodes' = c.m.nodes
     /\ cbs' = c.m.cbs
     /\ slot' = c.m.slot
     /\ ticks' = c.m.ticks
     /\ regs' = c.regs

Step(op, b, sync, ok) ==
  [op |-> op, b |-> b, sync |-> sync, ok |-> ok, clean |-> FALSE, exp |-> NoWrites,
   q |-> <<>>, over |-> U, whole |-> FALSE]

\* y = host[key]
ReadBound(b) ==
  /\ ~draining /\ fuel > 0
  /\ LET r == topGetter(Machine, b)
     IN Commit(r.m, [regs EXCEPT !["y"] =
            IF r.t = 0 THEN NoView ELSE [n |-> b, t |-> r.t, p |-> <<>>]])
  /\ fuel' = fuel - 1
  /\ last' = Step("read", b, FALSE, TRUE)
  /\ UNCHANGED <<cbOf, draining, written, clean, delivered, replica, whole, restVars>>

\* x = r[k] (keep) or just r[k], through the proxy held in r
TrapGet(r, k, keep) ==
  /\ ~draining /\ fuel > 0
  /\ regs[r].n # 0
  /\ LET v   == regs[r]
         res == get(Machine, v.n, v.t, k)
         nv  == IF res.n = 0 THEN NoView
                ELSE [n |-> res.n, t |-> res.t, p |-> Append(v.p, k)]
     IN /\ Commit(res.m, IF keep THEN [regs EXCEPT !["x"] = nv] ELSE regs)
        /\ last' = Step("get", nodes[v.n].b, FALSE, res.ok)
        /\ clean' = [clean EXCEPT ![nodes[v.n].b] = @ /\ res.ok]
  /\ fuel' = fuel - 1
  /\ UNCHANGED <<cbOf, draining, written, delivered, replica, whole, restVars>>

\* r[k] = x, x a scalar or (obj) a new {}
TrapSet(r, k, x, obj) ==
  /\ ~draining /\ fuel > 0
  /\ regs[r].n # 0
  /\ obj => Len(regs[r].p) < MaxDepth
  /\ LET v   == regs[r]
         b   == nodes[v.n].b
         m0  == IF obj THEN Alloc(Machine) ELSE Machine
         val == IF obj THEN Ref(Len(m0.heap)) ELSE x
         res == set(m0, v.n, v.t, k, val)
     IN /\ Commit(res.m, regs)
        /\ last' = [Step("set", b, FALSE, res.ok) EXCEPT
                       !.q = Append(v.p, k), !.over = written[b][Append(v.p, k)]]
        /\ clean' = [clean EXCEPT ![b] = @ /\ res.ok /\ Attached(v)]
        /\ written' = [written EXCEPT ![b] = Record(@, Append(v.p, k), val)]
  /\ fuel' = fuel - 1
  /\ UNCHANGED <<cbOf, draining, delivered, replica, whole, restVars>>

\* delete r[k]
TrapDelete(r, k) ==
  /\ ~draining /\ fuel > 0
  /\ regs[r].n # 0
  /\ LET v   == regs[r]
         b   == nodes[v.n].b
         res == deleteProperty(Machine, v.n, v.t, k)
     IN /\ Commit(res.m, regs)
        /\ last' = [Step("delete", b, FALSE, res.ok) EXCEPT
                       !.q = Append(v.p, k), !.over = written[b][Append(v.p, k)]]
        /\ clean' = [clean EXCEPT ![b] = @ /\ res.ok /\ Attached(v)]
        /\ written' = [written EXCEPT ![b] = Record(@, Append(v.p, k), NUL)]
  /\ fuel' = fuel - 1
  /\ UNCHANGED <<cbOf, draining, delivered, replica, whole, restVars>>

\* host[key] = x, x a scalar or (obj) a new {}
WriteBound(b, x, obj) ==
  /\ ~draining /\ fuel > 0
  /\ LET m0  == IF obj THEN Alloc(Machine) ELSE Machine
         val == IF obj THEN Ref(Len(m0.heap)) ELSE x
         res == setter(m0, b, val)
     IN /\ Commit(res.m, regs)
        /\ last' = Step("write", b, res.sync, TRUE)
        /\ delivered' = IF res.sync
                        THEN [delivered EXCEPT ![b] = Deliver(m0, val, "sync")]
                        ELSE delivered
        /\ replica' = IF res.sync
                      THEN [replica EXCEPT ![b] = Reconcile(@, Flat(m0, val)).t]
                      ELSE replica
        /\ whole' = [whole EXCEPT ![b] = ~res.sync]
  /\ clean' = [clean EXCEPT ![b] = FALSE]
  /\ fuel' = fuel - 1
  /\ UNCHANGED <<cbOf, draining, written, restVars>>

\* the next scheduling opportunity: the first queued closure runs
NextTick ==
  /\ ticks # <<>>
  /\ LET b == Head(ticks)
         f == flush(Machine, b)
     IN /\ Commit(f.m, regs)
        /\ delivered' = [delivered EXCEPT ![b] = Deliver(Machine, f.arg, "tick")]
        /\ last' = [op |-> "flush", b |-> b, sync |-> FALSE, ok |-> TRUE,
                    clean |-> clean[b], exp |-> written[b], q |-> <<>>, over |-> U,
                    whole |-> whole[b]]
        /\ replica' = [replica EXCEPT ![b] = Reconcile(@, Flat(Machine, f.arg)).t]
        /\ written' = [written EXCEPT ![b] = NoWrites]
        /\ whole' = [whole EXCEPT ![b] = FALSE]
  /\ draining' = (Tail(ticks) # <<>>)
  /\ UNCHANGED <<cbOf, fuel, clean, restVars>>

NoOutcome == [before |-> NoTree, inc |-> NoWrites, log |-> <<>>, threw |-> FALSE,
              clear |-> TRUE, truthy |-> TRUE]
ConsIdle == previous = NoTree /\ orig = NoTree /\ outcome = NoOutcome /\ applied = 0

\* ------------------------------------------------------------ Server
Events == {"preload", "createConf", "nothing", "toString"}
\* names the empty object this.triggers inherits from Object.prototype
Inherited == {"toString"}
Projs == {"p", "q"}
\* listener functions
Funcs == {1, 2}
NoTrigger == [has |-> FALSE, listeners |-> <<>>, callback |-> FALSE]
NoTriggers == [e \in Events |-> NoTrigger]
NoCall == [op |-> "none", evStr |-> TRUE, event |-> "nothing", cbFn |-> TRUE,
           threw |-> FALSE, before |-> NoTriggers, firedBefore |-> 0]
SrvIdle ==
  /\ triggers = NoTriggers /\ library = [p \in Projs |-> 0] /\ loading = <<>>
  /\ completed = 0 /\ built = [p \in Projs |-> 0] /\ got = [p \in Projs |-> {}]
  /\ fired = 0 /\ calls = 0 /\ srvLast = NoCall
Idle == ConsIdle /\ SrvIdle

\* --------------------------------------------------------- initial states
\* observe(host, key, callback) on a property holding
\*   {a: {a: 1, b: {a: 1}}, b: {a: 1}}
Tree1 == << [a |-> Ref(2), b |-> Ref(4)], [a |-> Sc(1), b |-> Ref(3)],
            [a |-> Sc(1), b |-> U], [a |-> Sc(1), b |-> U] >>
NoCb == [wait |-> FALSE, key |-> "-", store |-> U, tmp |-> U]

InitOne ==
  LET m0 == [heap |-> Append(Tree1, EmptyObj),
             nodes |-> << [NewNode(1) EXCEPT !.store = Ref(5)] >>,
             cbs |-> << NoCb >>,
             slot |-> << Ref(1) >>,
             ticks |-> <<>>]
      c  == Canon(m0, [r \in Regs |-> NoView])
  IN /\ heap = c.m.heap /\ nodes = c.m.nodes /\ cbs = c.m.cbs
     /\ slot = c.m.slot /\ ticks = c.m.ticks /\ regs = c.regs
     /\ cbOf = << 1 >>
     /\ fuel = MaxOps
     /\ draining = FALSE
     /\ written = << NoWrites >>
     /\ clean = << TRUE >>
     /\ delivered = << Nothing >>
     /\ replica = << PlainTree(Flat(m0, Ref(1))) >>
     /\ whole = << FALSE >>
     /\ last = Step("init", 1, FALSE, TRUE)
     /\ Idle

Next ==
  \/ \E b \in Bindings : ReadBound(b)
  \/ \E r \in Regs, k \in Keys, keep \in BOOLEAN : TrapGet(r, k, keep)
  \/ \E r \in Regs, k \in Keys, x \in Scalars : TrapSet(r, k, x, FALSE)
  \/ \E r \in Regs, k \in Keys : TrapSet(r, k, U, TRUE)
  \/ \E r \in Regs, k \in Keys : TrapDelete(r, k)
  \/ \E b \in Bindings : WriteBound(b, Sc(1), FALSE)
  \/ \E b \in Bindings : WriteBound(b, U, TRUE)
  \/ NextTick

Spec == InitOne /\ [][Next]_vars


\* observe() twice: two bound properties, registered with one callback
\* function or with two
Tree2 == << [a |-> Sc(1), b |-> U] >>
InitTwo ==
  \E shared \in BOOLEAN :
    LET m0 == [heap |-> Tree1 \o Tree2 \o << EmptyObj, EmptyObj >>,
               nodes |-> << [NewNode(1) EXCEPT !.store = Ref(6)],
                            [NewNode(2) EXCEPT !.store = Ref(7)] >>,
               cbs |-> << NoCb, NoCb >>,
               slot |-> << Ref(1), Ref(5) >>,
               ticks |-> <<>>]
        c  == Canon(m0, [r \in Regs |-> NoView])
    IN /\ heap = c.m.heap /\ nodes = c.m.nodes /\ cbs = c.m.cbs
       /\ slot = c.m.slot /\ ticks = c.m.ticks /\ regs = c.regs
       /\ cbOf = IF shared THEN << 1, 1 >> ELSE << 1, 2 >>
       /\ fuel = MaxOps
       /\ draining = FALSE
       /\ written = << NoWrites, NoWrites >>
       /\ clean = << TRUE, TRUE >>
       /\ delivered = << Nothing, Nothing >>
       /\ replica = << PlainTree(Flat(m0, Ref(1))), PlainTree(Flat(m0, Ref(5))) >>
       /\ whole = << FALSE, FALSE >>
       /\ last = Step("init", 1, FALSE, TRUE)
       /\ Idle

SpecTwo == InitTwo /\ [][Next]_vars


\* ------------------------------------------------- the consumer on its own
Hidden(f) == [f EXCEPT !.e = FALSE]
Locked(f) == [f EXCEPT !.c = FALSE]
ReadOnly(f) == [f EXCEPT !.s = "throw"]
Acc(v, s) == [k |-> "acc", v |-> v, e |-> TRUE, c |-> TRUE, s |-> s]

\* the property at key a, as [f: it, ch: its property a, g: the property a of that]
Shape(f, ch, g) == [f |-> f, ch |-> ch, g |-> g]
LeafFields ==
  LET base == {Plain(Sc(1)), Plain(Sc(0)), Plain(NUL), Locked(Plain(Sc(1))),
               ReadOnly(Plain(Sc(1))), Acc(Sc(1), "store"), Acc(Sc(1), "throw"),
               Acc(Sc(1), "none")}
  IN base \cup {Hidden(f) : f \in base \ {Plain(NUL)}}
ChildFields ==
  {Abs, Plain(Sc(1)), Plain(Sc(0)), Plain(NUL), Hidden(Plain(Sc(1))),
   Locked(Plain(Sc(1))), Acc(Sc(1), "store")}
PrevShapes ==
  {Shape(Abs, Abs, Abs)}
  \cup {Shape(f, Abs, Abs) : f \in LeafFields}
  \cup {Shape(f, ch, Abs) : f \in {Plain(OBJ), Hidden(Plain(OBJ)), Locked(Plain(OBJ)),
                                    Acc(OBJ, "store")},
                            ch \in ChildFields}
  \cup {Shape(Plain(OBJ), Plain(OBJ), g) : g \in {Abs, Plain(Sc(1))}}
MkTree(sh, fb) ==
  [p \in Paths |-> IF p = <<"a">> THEN sh.f
                   ELSE IF p = <<"a", "a">> THEN sh.ch
                   ELSE IF p = <<"a", "a", "a">> THEN sh.g
                   ELSE IF p = <<"b">> THEN fb
                   ELSE Abs]
PrevTrees ==
  {MkTree(sh, fb) : sh \in PrevShapes, fb \in {Abs, Plain(Sc(1)), Locked(Plain(Sc(1)))}}

\* incoming JSON: a diff or a snapshot
IncShapes ==
  {Shape(v, U, U) : v \in {U, Sc(0), Sc(1), Sc(2), NUL, OBJ}}
  \cup {Shape(OBJ, v, U) : v \in {Sc(0), Sc(1), Sc(2), NUL, OBJ}}
  \cup {Shape(OBJ, OBJ, v) : v \in {Sc(1), Sc(2)}}
IncTrees ==
  {[p \in Paths |-> IF p = <<"a">> THEN sh.f
                    ELSE IF p = <<"a", "a">> THEN sh.ch
                    ELSE IF p = <<"a", "a", "a">> THEN sh.g
                    ELSE IF p = <<"b">> THEN vb
                    ELSE U] : sh \in IncShapes, vb \in {U, Sc(1), Sc(2)}}

\* exports.applyChange(previous, inc)
ApplyStep(inc) ==
  /\ applied < MaxApplies
  /\ LET r == Reconcile(previous, inc)
     IN /\ previous' = r.t
        /\ outcome' = [before |-> previous, inc |-> inc, log |-> r.log,
                       threw |-> r.threw, clear |-> outcome.clear /\ ~r.threw,
                       truthy |-> outcome.truthy /\ \A p \in Paths : inc[p] = U \/ Truthy(inc[p])]
  /\ applied' = applied + 1
  /\ UNCHANGED <<orig, prodVars, srvVars>>

InitApply ==
  /\ previous \in PrevTrees
  /\ orig = previous
  /\ outcome = NoOutcome
  /\ applied = 0
  /\ heap = <<>> /\ nodes = <<>> /\ cbs = <<>> /\ cbOf = <<>> /\ slot = <<>>
  /\ ticks = <<>> /\ regs = [r \in Regs |-> NoView] /\ fuel = 0
  /\ draining = FALSE /\ written = <<>> /\ clean = <<>> /\ delivered = <<>>
  /\ replica = <<>> /\ whole = <<>> /\ last = Step("init", 1, FALSE, TRUE)
  /\ SrvIdle

NextApply == \E inc \in IncTrees : ApplyStep(inc)

SpecApply == InitApply /\ [][NextApply]_vars

\* ------------------------------------------------- the Server registry
\* number of Server calls (on, addTrigger, getProj, list entries of preload)
MaxCalls == 4

\* the Server object's state the methods act on
Srv == [triggers |-> triggers, library |-> library, loading |-> loading,
        completed |-> completed, built |-> built, got |-> got, fired |-> fired]

\* Server.prototype.addTrigger: a new trigger replaces what is stored
addTrigger(s, event, cb) ==
  [s EXCEPT !.triggers[event] = [has |-> TRUE, listeners |-> <<>>, callback |-> cb]]

\* on without the argument tests
onUnchecked(s, evStr, event, cbFn, f) ==
  IF ~s.triggers[event].has THEN [s |-> s, threw |-> event \in Inherited]
  ELSE [s |-> [s EXCEPT !.triggers[event].listeners = Append(@, f),
                        !.triggers[event].callback = FALSE,
                        !.fired = IF s.triggers[event].callback THEN @ + 1 ELSE @],
        threw |-> FALSE]

\* Server.prototype.on(event, callback): evStr = event is a string (event then
\* names it), cbFn = callback is a function (f then names it)
on(s, evStr, event, cbFn, f) ==
  IF ~evStr \/ ~cbFn THEN [s |-> s, threw |-> TRUE]
  ELSE IF ~s.triggers[event].has THEN [s |-> s, threw |-> event \in Inherited]
  ELSE [s |-> [s EXCEPT !.triggers[event].listeners = Append(@, f),
                        !.triggers[event].callback = FALSE,
                        !.fired = IF s.triggers[event].callback THEN @ + 1 ELSE @],
        threw |-> FALSE]

\* the callback a caller gave getProj, invoked with the Project inst (0:
\* undefined); async = the preload loop has gone on since the call
callback(s, caller, projID, inst, async) ==
  LET s1 == [s EXCEPT !.got[projID] = @ \cup {inst}]
  IN IF caller # "preload" THEN s1
     ELSE IF s1.completed # 1 THEN [s1 EXCEPT !.completed = @ - 1]
     ELSE IF async THEN [s1 EXCEPT !.completed = 0]
     ELSE [s1 EXCEPT !.completed = 0, !.triggers["preload"].callback = TRUE]

\* Server.prototype.getProj
getProj(s, projID, caller) ==
  IF s.library[projID] # 0 THEN callback(s, caller, projID, s.library[projID], FALSE)
  ELSE [s EXCEPT !.loading = Append(@, [proj |-> projID, caller |-> caller])]

\* the callback handed to loader.loadProj, run with result res
loaded(s, i, res) ==
  LET e  == s.loading[i]
      s1 == [s EXCEPT !.loading = SubSeq(@, 1, i - 1) \o SubSeq(@, i + 1, Len(@))]
      s2 == IF res = "settings"
            THEN [s1 EXCEPT !.built[e.proj] = @ + 1, !.library[e.proj] = s1.built[e.proj] + 1]
            ELSE s1
  IN callback(s2, e.caller, e.proj, s2.library[e.proj], TRUE)

RECURSIVE preloadEach(_, _)
\* list.forEach((projID) => this.getProj(projID, null, ...))
preloadEach(s, list) ==
  IF list = <<>> THEN s
  ELSE preloadEach(getProj(s, Head(list), "preload"), Tail(list))

SrvCommit(s) ==
  /\ triggers' = s.triggers /\ library' = s.library /\ loading' = s.loading
  /\ completed' = s.completed /\ built' = s.built /\ got' = s.got /\ fired' = s.fired
Call(op) == [NoCall EXCEPT !.op = op, !.before = triggers, !.firedBefore = fired]

AddTrigger(event, cb) ==
  /\ calls > 0
  /\ SrvCommit(addTrigger(Srv, event, cb))
  /\ calls' = calls - 1
  /\ srvLast' = Call("addTrigger")
  /\ UNCHANGED <<prodVars, consVars>>

On(evStr, event, cbFn, f) ==
  /\ calls > 0
  /\ LET r == on(Srv, evStr, event, cbFn, f)
     IN /\ SrvCommit(r.s)
        /\ srvLast' = [Call("on") EXCEPT !.evStr = evStr, !.event = event,
                                         !.cbFn = cbFn, !.threw = r.threw]
  /\ calls' = calls - 1
  /\ UNCHANGED <<prodVars, consVars>>

\* a client asks for a project
GetProj(projID) ==
  /\ calls > 0
  /\ SrvCommit(getProj(Srv, projID, "client"))
  /\ calls' = calls - 1
  /\ srvLast' = Call("getProj")
  /\ UNCHANGED <<prodVars, consVars>>

\* the callback of loader.getProjs, run once with a non-empty list
Preload(list) ==
  /\ completed = -1
  /\ calls >= Len(list)
  /\ SrvCommit(preloadEach([Srv EXCEPT !.completed = Len(list)], list))
  /\ calls' = calls - Len(list)
  /\ srvLast' = Call("preload")
  /\ UNCHANGED <<prodVars, consVars>>

\* a loadProj call completes
LoadDone(i, res) ==
  /\ i \in DOMAIN loading
  /\ SrvCommit(loaded(Srv, i, res))
  /\ srvLast' = Call("loaded")
  /\ UNCHANGED <<calls, prodVars, consVars>>

\* new Server(...): the preload trigger exists, createConf is there (with a
\* deferred callback) when the config file is still to be created
InitServer ==
  /\ \E conf \in BOOLEAN :
        triggers = [NoTriggers EXCEPT
                      !["preload"] = [has |-> TRUE, listeners |-> <<>>, callback |-> FALSE],
                      !["createConf"] = [has |-> conf, listeners |-> <<>>, callback |-> conf]]
  /\ library = [p \in Projs |-> 0] /\ loading = <<>> /\ completed = -1
  /\ built = [p \in Projs |-> 0] /\ got = [p \in Projs |-> {}]
  /\ fired = 0 /\ calls = MaxCalls /\ srvLast = NoCall
  /\ ConsIdle
  /\ heap = <<>> /\ nodes = <<>> /\ cbs = <<>> /\ cbOf = <<>> /\ slot = <<>>
  /\ ticks = <<>> /\ regs = [r \in Regs |-> NoView] /\ fuel = 0
  /\ draining = FALSE /\ written = <<>> /\ clean = <<>> /\ delivered = <<>>
  /\ replica = <<>> /\ whole = <<>> /\ last = Step("init", 1, FALSE, TRUE)

NextServer ==
  \/ \E e \in Events, cb \in BOOLEAN : AddTrigger(e, cb)
  \/ \E evStr \in BOOLEAN, e \in Events, cbFn \in BOOLEAN, f \in Funcs : On(evStr, e, cbFn, f)
  \/ \E p \in Projs : GetProj(p)
  \/ \E p1 \in Projs : Preload(<<p1>>)
  \/ \E p1 \in Projs, p2 \in Projs : Preload(<<p1, p2>>)
  \/ \E i \in DOMAIN loading, res \in {"settings", "err", "null", "other"} : LoadDone(i, res)

SpecServer == InitServer /\ [][NextServer]_vars

\* ------------------------------------------------------------------ claims
Live(b) == Flat(Machine, slot[b])
Flushed == last.op = "flush"

\* C1: after every flush the replica, fed every delivered argument through
\* applyChange, shows the content of the observed tree (mutations by set and
\* delete through attached views only).
C1_ReplicaInSync ==
  (Flushed /\ clean[last.b]) => Visible(replica[last.b]) = Live(last.b)

\* C2: the diff delivered at a flush holds, for each path set or deleted in
\* the turn, the last value written (null for a delete).
C2_AllWritesDelivered ==
  (Flushed /\ last.clean) =>
     \A p \in Paths : last.exp[p] \notin {U, OBJ} => delivered[last.b].t[p] = last.exp[p]

\* C3: the diff delivered at a flush has a key at a path only if that path
\* was written in the turn, is an ancestor of a written path, or lies inside
\* an object written in the turn.
C3_OnlyWrittenPaths ==
  (Flushed /\ last.clean) =>
     \A p \in Paths : delivered[last.b].t[p] # U =>
        \E q \in Paths : /\ last.exp[q] # U
                         /\ \/ IsPrefix(p, q)
                            \/ IsPrefix(q, p) /\ last.exp[q] = OBJ

NoDup(q) == \A i, j \in DOMAIN q : i # j => cbOf[q[i]] # cbOf[q[j]]
Queued(b) == \E i \in DOMAIN ticks : cbOf[ticks[i]] = cbOf[b]
NWritten(b) == Cardinality({p \in Paths : written[b][p] # U})

\* C4 as stated: no mutating call, the wholesale write to the bound property
\* included, invokes the callback synchronously.
C4_NeverSynchronous == ~last.sync

\* C4 amended: a nested set or delete never invokes the callback inside the
\* call; it leaves exactly one flush of the callback function queued, however
\* many mutations the turn makes. A wholesale write invokes the callback
\* synchronously exactly when no flush is pending, and queues nothing.
C4_Deferred ==
  [][ /\ NoDup(ticks')
      /\ last'.op \in {"set", "delete"} =>
            /\ delivered' = delivered
            /\ \E i \in DOMAIN ticks' : cbOf[ticks'[i]] = cbOf[last'.b]
            /\ Len(ticks') = IF Queued(last'.b) THEN Len(ticks) ELSE Len(ticks) + 1
      /\ last'.op = "write" =>
            /\ last'.sync = ~cbs[cbOf[last'.b]].wait
            /\ ticks' = ticks
            /\ ~last'.sync => delivered' = delivered
      /\ last'.sync => last'.op = "write"
    ]_vars
C4_Witness ==
  /\ last.op \in {"set", "delete"} /\ last.ok
  /\ NWritten(last.b) >= 2
  /\ Len(ticks) = 1

\* C5: whenever a binding has mutations not yet delivered, its flush is
\* queued for the next scheduling opportunity.
C5_FlushPending ==
  \A b \in Bindings :
     (clean[b] /\ written[b] # NoWrites) => \E i \in DOMAIN ticks : ticks[i] = b

\* ---- applyChange
HasEvent(ev, path) == \E i \in DOMAIN outcome.log : outcome.log[i] = Event(ev, path)
SameBelow(t1, t2, q) == \A p \in Paths : IsPrefix(q, p) => t1[p] = t2[p]
IsPlain(f) == f.k = "data" /\ f.e /\ f.c /\ f.s = "store"
Exists(f) == f.k # "abs"
IsLocked(f) == f.k # "abs" /\ ~f.c

\* C6: a null at path a/k of the incoming diff removes or hides the property
\* a/k of the target (a and a/k plain visible properties, a/k holding a
\* scalar or an object), and applyChange does not throw.
C6_NullRemoves ==
  applied > 0 =>
    \A p \in Paths :
      ( /\ Len(p) = 2
        /\ outcome.inc[p] = NUL
        /\ IsPlain(outcome.before[<<p[1]>>])
        /\ IsPlain(outcome.before[p]) /\ outcome.before[p].v # NUL )
      => (~outcome.threw /\ ~Shown(previous, p))

\* C7: a non-configurable property of previous keeps its value and its
\* subtree, a failure is reported when incoming supplies another value for
\* it, and the other keys end as they would without it.
Without(t, k, none) == [p \in Paths |-> IF IsPrefix(<<k>>, p) THEN none ELSE t[p]]
C7_LockedKept ==
  applied > 0 =>
    \A k \in Keys :
      IsLocked(outcome.before[<<k>>]) =>
        /\ SameBelow(previous, outcome.before, <<k>>)
        /\ (outcome.inc[<<k>>] # U /\ (outcome.inc[<<k>>] = OBJ \/ outcome.inc[<<k>>] # outcome.before[<<k>>].v))
              => HasEvent("locked", <<k>>)
        /\ \A j \in Keys \ {k} :
              SameBelow(previous,
                        Reconcile(Without(outcome.before, k, Abs), Without(outcome.inc, k, U)).t,
                        <<j>>)

\* C8: a visible, unlocked key absent from incoming is deleted when it is a
\* data property, whatever its value; an accessor is kept, hidden, its setter
\* called with undefined; a removed event is reported (calls that return).
C8_Removal ==
  (applied > 0 /\ ~outcome.threw) =>
    \A k \in Keys :
      LET d == outcome.before[<<k>>]
      IN (Exists(d) /\ d.e /\ d.c /\ outcome.inc[<<k>>] = U) =>
           /\ HasEvent("removed", <<k>>)
           /\ IF d.k = "data" THEN ~Exists(previous[<<k>>])
              ELSE /\ previous[<<k>>].k = "acc" /\ ~previous[<<k>>].e
                   /\ d.s = "store" => previous[<<k>>].v = U

\* C9: without locked fields (and with every value truthy, no call throwing),
\* applyChange(T, T2) then applyChange(T, T3) leaves T showing what
\* applyChange(T, T3) alone leaves it showing: same visible keys and values.
C9_RoundTrip ==
  ( /\ applied = 2 /\ outcome.clear /\ outcome.truthy
    /\ \A p \in Paths : orig[p].c /\ (orig[p].v = U \/ Truthy(orig[p].v)) ) =>
    LET d == Reconcile(orig, outcome.inc)
    IN ~d.threw => Visible(previous) = Visible(d.t)

\* C10: a key absent or hidden on previous, present on incoming, not locked:
\* previous[key] holds incoming[key] and is enumerable, with an added event;
\* or, the assignment failing, an add-failed error (calls that return).
C10_Addition ==
  (applied > 0 /\ ~outcome.threw) =>
    \A k \in Keys :
      LET d == outcome.before[<<k>>]
      IN ((~Exists(d) \/ ~d.e) /\ d.c /\ outcome.inc[<<k>>] # U) =>
           IF Exists(d) /\ d.s # "store"
           THEN HasEvent("addfail", <<k>>) /\ SameBelow(previous, outcome.before, <<k>>)
           ELSE /\ HasEvent("added", <<k>>)
                /\ previous[<<k>>].v = outcome.inc[<<k>>] /\ previous[<<k>>].e
                /\ \A p \in Paths : Below(<<k>>, p) => previous[p].v = outcome.inc[p]

\* ---- producer, continued
\* the aggregate of the turn: the object the next flush of b hands over
Aggregate(b) == Flat(Machine, nodes[b].store)

\* C11: after a delete through the (attached) view of the node at path p,
\* the turn's aggregate holds null at p/k, the live object has no k, and a
\* flush of the binding's callback is queued; after a set of a path deleted
\* earlier in the turn the aggregate holds the written value there.
C11_DeleteRecorded ==
  (last.ok /\ clean[last.b]) =>
     /\ last.op = "delete" =>
           /\ Aggregate(last.b)[last.q] = NUL
           /\ Live(last.b)[last.q] = U
           /\ Queued(last.b)
     /\ (last.op = "set" /\ last.over = NUL) =>
           Aggregate(last.b)[last.q] = written[last.b][last.q]

\* the bound property's raw value, as a callback argument
Raw(b) == [v |-> IF IsRef(slot[b]) THEN OBJ ELSE slot[b], t |-> Live(b)]
Arg(b) == [v |-> delivered[b].v, t |-> delivered[b].t]

\* C12: a wholesale write made while no flush is pending invokes the callback
\* at once with the raw new value; one made while a flush is pending invokes
\* nothing, and the value waits for a queued flush of its binding; that flush
\* delivers the bound property's raw value as it then is.
C12_FullValue ==
  /\ (last.op = "write" /\ last.sync) => (~whole[last.b] /\ Arg(last.b) = Raw(last.b))
  /\ \A b \in Bindings : whole[b] => \E i \in DOMAIN ticks : ticks[i] = b
  /\ (Flushed /\ last.whole) => Arg(last.b) = Raw(last.b)

\* the view kept in x shows the object now at its path in the live tree
FreshX == regs["x"].n # 0 /\ Attached(regs["x"])

\* C15: a read x = r[k] through a view r of the object now at r's path,
\* returning a view, returns a view of the object now held at key k, also
\* after that object was replaced, never the view cached for an earlier one.
C15_FreshView ==
  [][ \A r \in Regs, k \in Keys :
        (TrapGet(r, k, TRUE) /\ Attached(regs[r]) /\ last'.ok /\ regs'["x"].n # 0)
           => FreshX' ]_vars

\* C18: once a flush has handed the aggregate to the callback, every set or
\* delete of a later turn (through an attached view) is recorded in the fresh
\* aggregate of that turn, not in an object delivered before.
C18_FreshAggregate ==
  ( /\ last.op \in {"set", "delete"} /\ last.ok /\ clean[last.b]
    /\ delivered[last.b].kind = "tick" ) =>
     Aggregate(last.b)[last.q] = written[last.b][last.q]

\* C19: in the first turn, a set through the view obtained at path p is
\* recorded in the aggregate at p/k, the path the view was obtained by,
\* whatever reads were made since the view was obtained.
C19_ReadsDoNotMatter ==
  ( /\ last.op = "set" /\ last.ok /\ clean[last.b]
    /\ delivered[last.b].kind = "none" ) =>
     Aggregate(last.b)[last.q] = written[last.b][last.q]

\* ---- applyChange, continued
\* the assignment previous[k] = incoming[k] is made (add or update) and throws
AssignFails(k) ==
  LET d == outcome.before[<<k>>]
  IN /\ Exists(d) /\ d.c /\ d.s # "store"
     /\ outcome.inc[<<k>>] # U
     /\ outcome.inc[<<k>>] # d.v
     /\ ~(d.e /\ outcome.inc[<<k>>] \in {OBJ, NUL} /\ d.v \in {OBJ, NUL})
Unchanged(k) == SameBelow(previous, outcome.before, <<k>>)

C16_NullNotEntered ==
  applied > 0 =>
    \A k \in Keys :
      LET d == outcome.before[<<k>>]
          v == outcome.inc[<<k>>]
      IN (Exists(d) /\ d.e /\ d.c /\ d.s = "store" /\ << d.v, v >> \in {<< NUL, OBJ >>, << OBJ, NUL >>}) =>
           /\ ~outcome.threw
           /\ HasEvent("updated", <<k>>)
           /\ previous[<<k>>].v = v

\* both trees hold plain visible objects at every proper prefix of p
Entered(p) ==
  \A i \in 1..(Len(p) - 1) :
     /\ IsPlain(outcome.before[SubSeq(p, 1, i)]) /\ outcome.before[SubSeq(p, 1, i)].v = OBJ
     /\ outcome.inc[SubSeq(p, 1, i)] = OBJ

\* C17: a scalar updated at path p, at any depth, is reported with the full
\* path p from the root of the reconciled tree.
C17_FullPath ==
  (applied > 0 /\ ~outcome.threw) =>
    \A p \in Paths :
      ( /\ Entered(p)
        /\ IsPlain(outcome.before[p]) /\ outcome.before[p].v = Sc(1)
        /\ outcome.inc[p] = Sc(2) )
      => HasEvent("updated", p)

\* ---- Server
Malformed == ~srvLast.evStr \/ ~srvLast.cbFn

\* C14: on() throws when event is not a string or callback is not a
\* function; then, and when the event name has no trigger, no listener is
\* added to any trigger and no deferred trigger callback is run.
C14_FailFast ==
  srvLast.op = "on" =>
    /\ Malformed => srvLast.threw
    /\ (Malformed \/ ~srvLast.before[srvLast.event].has) =>
          (triggers = srvLast.before /\ fired = srvLast.firedBefore)
C14_Witness ==
  /\ srvLast.op = "on" /\ srvLast.evStr /\ ~srvLast.cbFn /\ srvLast.threw
  /\ triggers[srvLast.event].has /\ triggers[srvLast.event].callback

\* C20: for every project id at most one Project is ever constructed and
\* stored in library, and the getProj callbacks that receive a Project all
\* receive that one.
C20_OneProject ==
  \A p \in Projs :
     /\ built[p] <= 1
     /\ Cardinality(got[p] \ {0}) <= 1

====
